---- MODULE Spec2Model ----
(***************************************************************************)
(* A model of the AdvancedBubbleCanvas component                           *)
(* (src/src/components/AdvancedBubbleCanvas.tsx): the bubble map kept in   *)
(* bubblesRef, its reconciliation against the topics prop, the per-frame   *)
(* physics update and the pointer handlers.                                *)
(*                                                                         *)
(* JavaScript numbers are modelled in fixed point:                         *)
(*   lengths (x, y, radius, drag offsets, canvas size)  0.1 px             *)
(*   velocities (vx, vy)                                1e-4 px per ms     *)
(*   forces                                             1e-6               *)
(*   sentiment                                          0.001              *)
(*   volume                                             0.01 posts         *)
(*   factors (damping, smoothing speeds, directions)    0.001              *)
(* Products are divided back with Div, which truncates toward zero.        *)
(***************************************************************************)
EXTENDS Integers, Sequences, FiniteSets, TLC

VARIABLES
    topics,         \* the topics prop: the latest snapshot, an ordered list
    dimensions,     \* useState dimensions: [width, height]
    bubblesRef,     \* bubblesRef.current: the Map, as its entries in insertion order
    isMouseDown,    \* useState isMouseDown
    draggedBubble,  \* useState draggedBubble: a topic id or NoBubble
    mousePosition,  \* mousePosition.current: [x, y]
    pointer,        \* the pointer gesture: its phase, the bubble pressed, whether it moved
    clickCalls,     \* the onBubbleClick calls of the click event, if it ran last
    lastEvent,      \* the handler that last wrote bubblesRef.current or called back
    counts,         \* how many snapshots, resizes, frames and presses have run
    mounted,        \* the component is mounted
    frameCallbacks, \* the browser's pending requestAnimationFrame callbacks:
                    \* [id, dims], dims the dimensions the callback's animate closes over
    animationFrameRef,  \* animationFrameRef.current: a callback id, 0 for undefined
    data,           \* useSentimentData's data: the timestamp of the data held, NoDate for null
    loading,        \* useSentimentData's loading
    error,          \* useSentimentData's error: TRUE for a message, FALSE for null
    lastUpdated,    \* useSentimentData's lastUpdated: a time, NoDate for null
    pendingFetches, \* the fetchData calls awaiting their response: [id, seen],
                    \* seen the lastUpdated their fetchData closes over
    interval,       \* the armed setInterval: [seen], of the fetchData it calls
    fetchCount,     \* how many fetches of /data/sentiment.json have been started
    clock           \* the time, as new Date() reads it

loopVars == <<mounted, frameCallbacks, animationFrameRef>>

canvasVars == <<topics, dimensions, bubblesRef, isMouseDown, draggedBubble,
                mousePosition, pointer, clickCalls, lastEvent, counts,
                mounted, frameCallbacks, animationFrameRef>>

hookVars == <<data, loading, error, lastUpdated, pendingFetches, interval,
              fetchCount, clock>>

vars == <<topics, dimensions, bubblesRef, isMouseDown, draggedBubble,
          mousePosition, pointer, clickCalls, lastEvent, counts,
          mounted, frameCallbacks, animationFrameRef,
          data, loading, error, lastUpdated, pendingFetches, interval,
          fetchCount, clock>>

----------------------------------------------------------------------------
(* PHYSICS_CONFIG, in the units above.                                     *)

damping == 980
collisionDamping == 300
centeringForce == 50
separationForce == 20000
randomForce == 100
minRadius == 150
maxRadius == 800
boundaryPadding == 300
dragStrength == 800
maxVelocity == 8000
repulsionDistance == 1200
targetFPS == 60
driftStrength == 50
sentimentSmoothingSpeed == 20
volumeSmoothingSpeed == 50
colorSmoothingSpeed == 30
radiusSmoothingSpeed == 80

(* useState({ width: 800, height: 600 }) *)
initialWidth == 8000
initialHeight == 6000

----------------------------------------------------------------------------
(* Bounds of the model.                                                    *)

(* Snapshots, resizes, frames and presses that a run may hold in all. *)
MaxEvents == 4

(* The most fetches of the data file a behaviour of the data hook starts. *)
MaxFetches == 5

NoBubble == "none"

----------------------------------------------------------------------------
(* Arithmetic.                                                             *)

Abs(a) == IF a < 0 THEN -a ELSE a

Min(a, b) == IF a < b THEN a ELSE b

Max(a, b) == IF a > b THEN a ELSE b

(* a / b truncated toward zero, b > 0. *)
Div(a, b) == IF a >= 0 THEN a \div b ELSE -((-a) \div b)

RECURSIVE SqrtSearch(_, _, _)
SqrtSearch(n, lo, hi) ==
    IF lo >= hi THEN lo
    ELSE LET mid == (lo + hi + 1) \div 2
         IN  IF mid * mid <= n THEN SqrtSearch(n, mid, hi)
             ELSE SqrtSearch(n, lo, mid - 1)

(* Math.sqrt on a non-negative integer, rounded down. *)
Sqrt(n) == SqrtSearch(n, 0, 46340)

(* The element of a one-element set.  The(S) with S == {F(v) : v \in {e}}   *)
(* is F(e) with e evaluated once, as a JavaScript local is.                *)
The(S) == CHOOSE r \in S : TRUE

(* The largest element of s alone, 0 for the empty sequence. *)
SeqMaxOfValues(s, floor) ==
    LET RECURSIVE Go(_, _)
        Go(i, m) == IF i > Len(s) THEN m ELSE Go(i + 1, Max(m, s[i]))
    IN  Go(1, 0)

(* Math.max(...s, floor). *)
SeqMax(s, floor) ==
    LET RECURSIVE Go(_, _)
        Go(i, m) == IF i > Len(s) THEN m ELSE Go(i + 1, Max(m, s[i]))
    IN  Go(1, floor)

----------------------------------------------------------------------------
(* Inputs.                                                                 *)

TopicIds == {"A", "B", "C"}

(* A TopicSentiment record: the fields the component reads. *)
Topic(id, s, v) == [topicId |-> id, sentiment |-> s, volume |-> v]

(* The snapshots the host passes as the topics prop: ordered lists of      *)
(* topics with unique ids, sentiment in [-1, 1], volume a whole number of  *)
(* posts (0, 50 or 200 posts here).                                        *)
Snapshots ==
    { <<>>,
      <<Topic("A", 600, 20000), Topic("B", 0, 5000)>>,
      <<Topic("B", -600, 20000), Topic("C", 300, 0)>>,
      <<Topic("B", 0, 20000), Topic("A", 630, 5000)>>,
      <<Topic("A", 0, 0), Topic("B", 0, 0)>> }

(* TopicSentiment.sentiment is an average between -1 and 1. *)
sentimentLimit == 1000

(* Sentiments at, next to and between the thresholds of the colour bands. *)
SentimentInputs ==
    { -sentimentLimit, -750, -501, -500, -499, -300, -101, -100, -99, 0,
      99, 100, 101, 300, 499, 500, 501, 750, sentimentLimit }

(* Container sizes reported by getBoundingClientRect. *)
ContainerSizes ==
    { [width |-> 4000, height |-> 3000],
      [width |-> 2400, height |-> 6000],
      [width |-> 0, height |-> 3000] }

(* A small container and one that fills a 1920 x 1080 display. *)
DisplaySizes ==
    { [width |-> 4000, height |-> 3000],
      [width |-> 19200, height |-> 10800] }

(* Math.random() draws, in thousandths, one per call in call order. *)
RandomStreams ==
    { [i \in 1..6 |-> 500],
      [i \in 1..6 |-> IF i % 2 = 1 THEN 0 ELSE 999] }

(* Pointer positions relative to the canvas. *)
PointerPoints ==
    { [x |-> 4000, y |-> 3000],
      [x |-> 2900, y |-> 1900] }

----------------------------------------------------------------------------
(* Colours: '#rrggbb' strings as their three channels.                     *)

Rgb(r, g, b) == [r |-> r, g |-> g, b |-> b]

DarkGreen == Rgb(21, 128, 61)
Green == Rgb(34, 197, 94)
DarkRed == Rgb(153, 27, 27)
Red == Rgb(239, 68, 68)
NeutralGray == Rgb(107, 114, 128)

(* A mapping whose bands include their outer thresholds. *)
getSentimentColorInclusive(sentiment) ==
    IF sentiment >= 500 THEN DarkGreen
    ELSE IF sentiment >= 100 THEN Green
    ELSE IF sentiment <= -500 THEN DarkRed
    ELSE IF sentiment <= -100 THEN Red
    ELSE NeutralGray

(* A mapping that shades the colour by the sentiment inside the band. *)
getSentimentColorShaded(sentiment) ==
    IF sentiment > 500 THEN Rgb(21, 128 + Div(sentiment - 500, 10), 61)
    ELSE IF sentiment > 100 THEN Rgb(34, 197 - Div(sentiment - 100, 10), 94)
    ELSE IF sentiment < -500 THEN Rgb(153 + Div(-500 - sentiment, 10), 27, 27)
    ELSE IF sentiment < -100 THEN Rgb(239 - Div(-100 - sentiment, 10), 68, 68)
    ELSE NeutralGray

getSentimentColor(sentiment) ==
    IF sentiment > 500 THEN DarkGreen
    ELSE IF sentiment > 100 THEN Green
    ELSE IF sentiment < -500 THEN DarkRed
    ELSE IF sentiment < -100 THEN Red
    ELSE NeutralGray

(* minRadius + (maxRadius - minRadius) * Math.sqrt(volume / maxVolume) *)
(* A radius scaled by the raw volume, not by its share of the maximum. *)
calculateRadiusOfRawVolume(volume, maxVolume) ==
    LET normalized == Sqrt(Div(volume * 1000, 100) * 1000)
    IN  minRadius + Div((maxRadius - minRadius) * normalized, 1000)

(* A radius linear in the volume's share of the maximum. *)
calculateRadiusLinear(volume, maxVolume) ==
    minRadius + Div((maxRadius - minRadius) * Div(volume * 1000, maxVolume), 1000)

(* A radius that shrinks as the volume grows. *)
calculateRadiusInverted(volume, maxVolume) ==
    LET normalized == Sqrt(Div(volume * 1000, maxVolume) * 1000)
    IN  maxRadius - Div((maxRadius - minRadius) * normalized, 1000)

calculateRadius(volume, maxVolume) ==
    LET normalized == Sqrt(Div(volume * 1000, maxVolume) * 1000)
    IN  minRadius + Div((maxRadius - minRadius) * normalized, 1000)

----------------------------------------------------------------------------
(* The Map in bubblesRef.current, as the sequence of its values in         *)
(* insertion order.                                                        *)

MapHas(m, id) == \E i \in 1..Len(m) : m[i].id = id

MapGet(m, id) == m[CHOOSE i \in 1..Len(m) : m[i].id = id]

MapDelete(m, id) == SelectSeq(m, LAMBDA b : b.id # id)

(* Map.set: a present key keeps its place, a new key goes last. *)
MapSet(m, b) ==
    IF MapHas(m, b.id)
    THEN [i \in 1..Len(m) |-> IF m[i].id = b.id THEN b ELSE m[i]]
    ELSE Append(m, b)

MapKeys(m) == { m[i].id : i \in 1..Len(m) }

(* JavaScript's a || b on numbers: b when a is 0 (or NaN). *)
OrElse(a, b) == IF a = 0 THEN b ELSE a

----------------------------------------------------------------------------
(* initializeBubbles: the Map rebuilt from the topics prop.  rnd is the    *)
(* stream of Math.random() draws; only a topic without a bubble draws      *)
(* (twice: x, then y).                                                     *)

(* A reconciliation that restarts every bubble at rest. *)
restartedVelocity(v) == 0

(* existingBubble?.vx || 0 and existingBubble?.vy || 0 for a topic that    *)
(* has a bubble.                                                            *)
keptVelocity(v) == OrElse(v, 0)

(* A Bubble whose fresh position is drawn from the whole canvas, with no   *)
(* margin.                                                                 *)
NewBubbleAnywhere(topic, index, maxVolume, old, dims, rnd, used) ==
    LET exists == MapHas(old, topic.topicId)
        existingBubble == MapGet(old, topic.topicId)
        radius == calculateRadius(topic.volume, maxVolume)
        margin == radius + boundaryPadding
        rx == Div(rnd[used + 1] * dims.width, 1000)
        ry == Div(rnd[used + 2] * dims.height, 1000)
        centerBias == Min(Div(radius * 1000, maxRadius), 300)
        centerX == Div(dims.width, 2)
        centerY == Div(dims.height, 2)
        targetColor == getSentimentColor(topic.sentiment)
    IN  [ id |-> topic.topicId,
          topic |-> topic,
          x |-> IF exists THEN existingBubble.x
                ELSE rx + Div((centerX - rx) * centerBias * 3, 10000),
          y |-> IF exists THEN existingBubble.y
                ELSE ry + Div((centerY - ry) * centerBias * 3, 10000),
          vx |-> IF exists THEN keptVelocity(existingBubble.vx) ELSE 0,
          vy |-> IF exists THEN keptVelocity(existingBubble.vy) ELSE 0,
          radius |-> IF exists THEN OrElse(existingBubble.radius, radius) ELSE radius,
          targetRadius |-> radius,
          color |-> IF exists THEN existingBubble.color ELSE targetColor,
          targetColor |-> targetColor,
          currentSentiment |->
              IF exists THEN OrElse(existingBubble.currentSentiment, topic.sentiment)
              ELSE topic.sentiment,
          targetSentiment |-> topic.sentiment,
          currentVolume |->
              IF exists THEN OrElse(existingBubble.currentVolume, topic.volume)
              ELSE topic.volume,
          targetVolume |-> topic.volume,
          isDragging |-> IF exists THEN existingBubble.isDragging ELSE FALSE,
          dragOffsetX |-> 0,
          dragOffsetY |-> 0,
          mass |-> radius * radius,
          index |-> IF exists THEN OrElse(existingBubble.index, index) ELSE index ]

(* The Bubble for the topic at position i (forEach index i - 1), given the *)
(* Map entry it replaces, if any; used is the number of draws consumed.    *)
NewBubble(topic, index, maxVolume, old, dims, rnd, used) ==
    LET exists == MapHas(old, topic.topicId)
        existingBubble == MapGet(old, topic.topicId)
        radius == calculateRadius(topic.volume, maxVolume)
        margin == radius + boundaryPadding
        rx == margin + Div(rnd[used + 1] * (dims.width - 2 * margin), 1000)
        ry == margin + Div(rnd[used + 2] * (dims.height - 2 * margin), 1000)
        centerBias == Min(Div(radius * 1000, maxRadius), 300)
        centerX == Div(dims.width, 2)
        centerY == Div(dims.height, 2)
        targetColor == getSentimentColor(topic.sentiment)
    IN  [ id |-> topic.topicId,
          topic |-> topic,
          x |-> IF exists THEN existingBubble.x
                ELSE rx + Div((centerX - rx) * centerBias * 3, 10000),
          y |-> IF exists THEN existingBubble.y
                ELSE ry + Div((centerY - ry) * centerBias * 3, 10000),
          vx |-> IF exists THEN keptVelocity(existingBubble.vx) ELSE 0,
          vy |-> IF exists THEN keptVelocity(existingBubble.vy) ELSE 0,
          radius |-> IF exists THEN OrElse(existingBubble.radius, radius) ELSE radius,
          targetRadius |-> radius,
          color |-> IF exists THEN existingBubble.color ELSE targetColor,
          targetColor |-> targetColor,
          currentSentiment |->
              IF exists THEN OrElse(existingBubble.currentSentiment, topic.sentiment)
              ELSE topic.sentiment,
          targetSentiment |-> topic.sentiment,
          currentVolume |->
              IF exists THEN OrElse(existingBubble.currentVolume, topic.volume)
              ELSE topic.volume,
          targetVolume |-> topic.volume,
          isDragging |-> IF exists THEN existingBubble.isDragging ELSE FALSE,
          dragOffsetX |-> 0,
          dragOffsetY |-> 0,
          mass |-> radius * radius,
          index |-> IF exists THEN OrElse(existingBubble.index, index) ELSE index ]

RECURSIVE InitializeFrom(_, _, _, _, _, _, _)
InitializeFrom(i, ts, maxVolume, old, dims, rnd, acc) ==
    IF i > Len(ts) THEN acc.bubbles
    ELSE LET drew == IF MapHas(old, ts[i].topicId) THEN 0 ELSE 2
         IN  The({ InitializeFrom(i + 1, ts, maxVolume, old, dims, rnd,
                                  [bubbles |-> MapSet(acc.bubbles, b),
                                   used |-> acc.used + drew]) :
                   b \in {NewBubble(ts[i], i - 1, maxVolume, old, dims, rnd, acc.used)} })

(* Line 99: the largest volume of the snapshot, at least one post. *)
maxTopicVolume(ts) == SeqMax([i \in 1..Len(ts) |-> ts[i].volume], 100)

(* A reconciliation that writes the topics' bubbles into the old Map      *)
(* instead of a new one.                                                   *)
initializeIntoOldMap(ts, dims, old, rnd) ==
    LET maxVolume == maxTopicVolume(ts)
    IN  InitializeFrom(1, ts, maxVolume, old, dims, rnd,
                       [bubbles |-> old, used |-> 0])

(* The value initializeBubbles stores in bubblesRef.current. *)
initializeBubbles(ts, dims, old, rnd) ==
    LET maxVolume == maxTopicVolume(ts)
    IN  InitializeFrom(1, ts, maxVolume, old, dims, rnd,
                       [bubbles |-> <<>>, used |-> 0])

----------------------------------------------------------------------------
(* Vector and interpolation utilities.                                     *)

distance(a, b) == Sqrt((a.x - b.x) * (a.x - b.x) + (a.y - b.y) * (a.y - b.y))

(* The unit vector of v, in thousandths; the zero vector for magnitude 0. *)
normalize(v) ==
    LET mag == Sqrt(v.x * v.x + v.y * v.y)
    IN  IF mag > 0 THEN [x |-> Div(v.x * 1000, mag), y |-> Div(v.y * 1000, mag)]
        ELSE [x |-> 0, y |-> 0]

(* An interpolation that steps past the target. *)
lerpBeyond(current, target, speed) == target + Div((target - current) * speed, 1000)

lerp(current, target, speed) == current + Div((target - current) * speed, 1000)

(* Math.round of a lerp of two colour channels (0..255): half rounds up. *)
lerpRound(c1, c2, factor) == (c1 * 1000 + (c2 - c1) * factor + 500) \div 1000

blendColors(color1, color2, factor) ==
    Rgb(lerpRound(color1.r, color2.r, factor),
        lerpRound(color1.g, color2.g, factor),
        lerpRound(color1.b, color2.b, factor))

(* Math.min(1000 / targetFPS, 16.67), in units of 0.01 ms. *)
deltaTime == Min(Div(100000, targetFPS), 1667)

(* Date.now() * 0.001 enters the drift only through a sine and a cosine;   *)
(* the frame times of the model and, for the bubble indices 0..2, the      *)
(* values of Math.sin(time * 0.3 + index * 0.7) and                        *)
(* Math.cos(time * 0.2 + index * 1.1) in thousandths.                      *)
FrameTimes == {0, 10}

driftSin(time, index) ==
    IF time = 0 THEN <<0, 644, 985>>[index + 1] ELSE <<141, -530, -952>>[index + 1]

driftCos(time, index) ==
    IF time = 0 THEN <<1000, 454, -589>>[index + 1] ELSE <<-416, -999, -490>>[index + 1]

----------------------------------------------------------------------------
(* updatePhysics.  The bubbles are objects shared by the array and the     *)
(* Map, updated in place in array order; bs is their current value.        *)

(* Lines 235-262: bubble bs[i] against other bs[j]; acc holds the bubbles  *)
(* and the force accumulated on bs[i].                                     *)
Separate(acc, i, j) ==
    LET bs == acc.bs
        bubble == bs[i]
        other == bs[j]
        dist == distance(bubble, other)
        sum == bubble.radius + other.radius
        safeDistance == Div(sum * repulsionDistance, 1000)
        frac == Div((safeDistance - dist) * 1000, safeDistance)
        separationStrength == Div(frac * frac, 1000)
        direction == normalize([x |-> bubble.x - other.x, y |-> bubble.y - other.y])
        force == Div(separationStrength * separationForce, 1000)
        overlapping == dist < sum
        \* overlap * 0.02 with overlap = (sum - dist) * 0.5; direction is in thousandths
        pushX == IF overlapping THEN Div(direction.x * (sum - dist), 100000) ELSE 0
        pushY == IF overlapping THEN Div(direction.y * (sum - dist), 100000) ELSE 0
    IN  IF other.id = bubble.id THEN acc
        ELSE IF dist < safeDistance /\ dist > 0
        THEN [ bs |-> [bs EXCEPT ![i].x = @ + pushX, ![i].y = @ + pushY,
                                 ![j].x = @ - pushX, ![j].y = @ - pushY],
               forceX |-> acc.forceX + Div(direction.x * force, 1000),
               forceY |-> acc.forceY + Div(direction.y * force, 1000) ]
        ELSE acc

RECURSIVE SeparateAll(_, _, _)
SeparateAll(acc, i, j) ==
    IF j > Len(acc.bs) THEN acc
    ELSE The({ SeparateAll(next, i, j + 1) : next \in {Separate(acc, i, j)} })

(* Lines 204-209: the dragged bubble follows the pointer. *)
DragStep(bubble, mouse) ==
    [bubble EXCEPT !.x = mouse.x - bubble.dragOffsetX,
                   !.y = mouse.y - bubble.dragOffsetY,
                   !.vx = Div(@ * 95, 100),
                   !.vy = Div(@ * 95, 100)]

(* An integration without the speed limit. *)
IntegrateUnlimited(bs, i, forceX, forceY) ==
    LET vx == Div((bs[i].vx + Div(forceX * deltaTime, 100000)) * damping, 1000)
        vy == Div((bs[i].vy + Div(forceY * deltaTime, 100000)) * damping, 1000)
    IN  [bs EXCEPT ![i].vx = vx, ![i].vy = vy,
                   ![i].x = @ + Div(vx * deltaTime * 3, 1000000),
                   ![i].y = @ + Div(vy * deltaTime * 3, 1000000)]

(* Lines 268-285: the force applied to the velocity, damping, the speed    *)
(* limit and the position update of bs[i].                                 *)
Integrate(bs, i, forceX, forceY) ==
    LET \* force * deltaTime * 0.1, from 1e-6 to 1e-4
        vx1 == Div((bs[i].vx + Div(forceX * deltaTime, 100000)) * damping, 1000)
        vy1 == Div((bs[i].vy + Div(forceY * deltaTime, 100000)) * damping, 1000)
        speed == Sqrt(vx1 * vx1 + vy1 * vy1)
        vx == IF speed > maxVelocity THEN Div(vx1 * maxVelocity, speed) ELSE vx1
        vy == IF speed > maxVelocity THEN Div(vy1 * maxVelocity, speed) ELSE vy1
    IN  \* velocity * deltaTime * 0.3, from 1e-4 px to 0.1 px
        [bs EXCEPT ![i].vx = vx, ![i].vy = vy,
                   ![i].x = @ + Div(vx * deltaTime * 3, 1000000),
                   ![i].y = @ + Div(vy * deltaTime * 3, 1000000)]

(* Lines 211-285: forces, velocity and position of the free bubble bs[i].  *)
(* r is the pair of Math.random() draws of this bubble.                    *)
FreeStep(bs, i, dims, time, r) ==
    LET b0 == bs[i]
        driftOffsetX == Div(driftSin(time, b0.index) * driftStrength, 1000)
        driftOffsetY == Div(driftCos(time, b0.index) * driftStrength, 1000)
        center == [x |-> Div(dims.width, 2), y |-> Div(dims.height, 2)]
        centerDistance == distance(b0, center)
        maxDistance == Div(Min(dims.width, dims.height) * 4, 10)
        \* centeringForce is per pixel, the distances are in 0.1 px
        centerForce == Div((centerDistance - maxDistance) * centeringForce, 10)
        centerDirection == normalize([x |-> center.x - b0.x, y |-> center.y - b0.y])
        pulled == centerDistance > maxDistance
        f0x == driftOffsetX + (IF pulled THEN Div(centerDirection.x * centerForce, 1000) ELSE 0)
        f0y == driftOffsetY + (IF pulled THEN Div(centerDirection.y * centerForce, 1000) ELSE 0)
    IN  The({ Integrate(sep.bs, i,
                        sep.forceX + Div((r[1] - 500) * randomForce, 1000),
                        sep.forceY + Div((r[2] - 500) * randomForce, 1000)) :
              sep \in {SeparateAll([bs |-> bs, forceX |-> f0x, forceY |-> f0y], i, 1)} })

(* Lines 288-313: the soft walls.  (min - x) * 0.001 px/ms is min - x in   *)
(* the model's units; the overshoot allowed is 5 px.                       *)
BoundaryStep(bubble, dims) ==
    LET minX == bubble.radius + boundaryPadding
        maxX == dims.width - bubble.radius - boundaryPadding
        minY == bubble.radius + boundaryPadding
        maxY == dims.height - bubble.radius - boundaryPadding
        bx == IF bubble.x < minX
              THEN [bubble EXCEPT !.vx = @ + (minX - bubble.x),
                                  !.x = Max(bubble.x, minX - 50)]
              ELSE IF bubble.x > maxX
              THEN [bubble EXCEPT !.vx = @ + (maxX - bubble.x),
                                  !.x = Min(bubble.x, maxX + 50)]
              ELSE bubble
    IN  IF bx.y < minY
        THEN [bx EXCEPT !.vy = @ + (minY - bx.y), !.y = Max(bx.y, minY - 50)]
        ELSE IF bx.y > maxY
        THEN [bx EXCEPT !.vy = @ + (maxY - bx.y), !.y = Min(bx.y, maxY + 50)]
        ELSE bx

(* Line 332: the largest smoothed volume of the bubbles, at least one     *)
(* post.                                                                   *)
maxCurrentVolume(bs) == SeqMax([k \in 1..Len(bs) |-> bs[k].currentVolume], 100)

(* Lines 317-339: smoothing of sentiment, volume, colour and radius of     *)
(* bs[i]; the maximum volume is read from all bubbles as they are now.     *)
SmoothStep(bs, i) ==
    LET b0 == bs[i]
        currentSentiment == lerp(b0.currentSentiment, b0.targetSentiment, sentimentSmoothingSpeed)
        currentVolume == lerp(b0.currentVolume, b0.targetVolume, volumeSmoothingSpeed)
        targetColor == getSentimentColor(currentSentiment)
        color == IF b0.color # targetColor
                 THEN blendColors(b0.color, targetColor, colorSmoothingSpeed)
                 ELSE b0.color
        maxVolume == maxCurrentVolume([bs EXCEPT ![i].currentVolume = currentVolume])
        targetRadius == calculateRadius(currentVolume, maxVolume)
        radiusDiff == targetRadius - b0.radius
        radius == IF Abs(radiusDiff) > 1
                  THEN lerp(b0.radius, targetRadius, radiusSmoothingSpeed)
                  ELSE b0.radius
    IN  [b0 EXCEPT !.currentSentiment = currentSentiment,
                   !.currentVolume = currentVolume,
                   !.targetColor = targetColor,
                   !.color = color,
                   !.targetRadius = targetRadius,
                   !.radius = radius,
                   !.mass = IF Abs(radiusDiff) > 1 THEN radius * radius ELSE @]

(* One pass of bubbles.forEach for the bubble at position i. *)
UpdateBubble(bs, i, dims, mouse, time, rnd) ==
    The({ The({ [walled EXCEPT ![i] = SmoothStep(walled, i)] :
                walled \in {[moved EXCEPT ![i] = BoundaryStep(moved[i], dims)]} }) :
          moved \in { IF bs[i].isDragging
                      THEN [bs EXCEPT ![i] = DragStep(bs[i], mouse)]
                      ELSE FreeStep(bs, i, dims, time, <<rnd[2 * i - 1], rnd[2 * i]>>) } })

RECURSIVE UpdateFrom(_, _, _, _, _, _)
UpdateFrom(bs, i, dims, mouse, time, rnd) ==
    IF i > Len(bs) THEN bs
    ELSE The({ UpdateFrom(next, i + 1, dims, mouse, time, rnd) :
               next \in {UpdateBubble(bs, i, dims, mouse, time, rnd)} })

(* The Map's bubbles after updatePhysics(deltaTime). *)
updatePhysics(bs, dims, mouse, time, rnd) == UpdateFrom(bs, 1, dims, mouse, time, rnd)

----------------------------------------------------------------------------
(* render: what it draws of a bubble.                                      *)

(* The selectedTopicId prop: a topic id, or undefined. *)
SelectedTopicIds == TopicIds \cup {NoBubble}

(* scale, in thousandths: 1.1 for the selected bubble. *)
scale(bubble, selectedTopicId) ==
    IF selectedTopicId = bubble.id THEN 1100 ELSE 1000

(* The radius of the arc drawn, bubble.radius * scale, in 0.0001 px. *)
renderedRadius(bubble, selectedTopicId) ==
    bubble.radius * scale(bubble, selectedTopicId)

DarkText == Rgb(55, 65, 81)
LightText == Rgb(255, 255, 255)

(* The fillStyle of the label. *)
textColor(bubble) ==
    IF bubble.currentSentiment > -100 /\ bubble.currentSentiment < 100
    THEN DarkText ELSE LightText

----------------------------------------------------------------------------
(* The pointer handlers.                                                   *)

(* The position in Map order of the first bubble the point lies in, or 0:  *)
(* the for ... of loops of handleMouseDown and handleClick.                *)
FirstHit(bs, p) ==
    LET hits == { i \in 1..Len(bs) : distance(p, bs[i]) <= bs[i].radius }
    IN  IF hits = {} THEN 0 ELSE CHOOSE i \in hits : \A k \in hits : i <= k

(* A press that marks the hit bubble and leaves it where it is in the Map. *)
handleMouseDownInPlace(bs, p) ==
    LET i == FirstHit(bs, p)
    IN  IF i = 0 THEN bs
        ELSE [bs EXCEPT ![i].isDragging = TRUE,
                        ![i].dragOffsetX = p.x - bs[i].x,
                        ![i].dragOffsetY = p.y - bs[i].y]

(* handleMouseDown on the Map: the hit bubble starts dragging and is       *)
(* deleted and set again, which moves it to the end of the Map.            *)
handleMouseDown(bs, p) ==
    LET i == FirstHit(bs, p)
        bubble == [bs[i] EXCEPT !.isDragging = TRUE,
                                !.dragOffsetX = p.x - bs[i].x,
                                !.dragOffsetY = p.y - bs[i].y]
    IN  IF i = 0 THEN bs ELSE MapSet(MapDelete(bs, bubble.id), bubble)

(* handleMouseUp, as rendered with the given draggedBubble state. *)
handleMouseUp(bs, dragged) ==
    IF dragged # NoBubble /\ MapHas(bs, dragged)
    THEN [i \in 1..Len(bs) |->
            IF bs[i].id = dragged
            THEN [bs[i] EXCEPT !.isDragging = FALSE,
                               !.vx = Div(@ * dragStrength, 1000),
                               !.vy = Div(@ * dragStrength, 1000)]
            ELSE bs[i]]
    ELSE bs

(* A click handler that does not return after the first bubble it finds. *)
handleClickEveryHit(bs, mouseDown, p) ==
    LET hit == SelectSeq(bs, LAMBDA b : distance(p, b) <= b.radius)
    IN  IF mouseDown THEN <<>> ELSE [i \in 1..Len(hit) |-> hit[i].topic]

(* handleClick: the arguments onBubbleClick is called with, in order. *)
handleClick(bs, mouseDown, p) ==
    IF mouseDown THEN <<>>
    ELSE IF FirstHit(bs, p) = 0 THEN <<>>
    ELSE <<bs[FirstHit(bs, p)].topic>>

----------------------------------------------------------------------------
(* The animation loop: animate and the effect that starts and stops it.    *)

(* requestAnimationFrame(animate): the callback list with one more entry,  *)
(* under an id no pending callback has.                                    *)
requestAnimationFrame(frames, dims) ==
    LET id == CHOOSE n \in 1..(Cardinality(frames) + 1) :
                 /\ \A f \in frames : f.id # n
                 /\ \A k \in 1..(n - 1) : \E f \in frames : f.id = k
    IN  [frames |-> frames \cup {[id |-> id, dims |-> dims]}, id |-> id]

(* A cancelAnimationFrame that removes nothing. *)
cancelNothing(frames, id) == frames

cancelAnimationFrame(frames, id) == { f \in frames : f.id # id }

(* An effect that requests a frame whatever the dimensions are. *)
surfaceHasAnySize(dims) == TRUE

(* Line 514: dimensions.width > 0 && dimensions.height > 0. *)
surfaceHasSize(dims) == dims.width > 0 /\ dims.height > 0

(* The cleanup of the effect on [animate, dimensions]: lines 516-520. *)
stopLoop(frames, ref) ==
    IF ref # 0 THEN cancelAnimationFrame(frames, ref) ELSE frames

(* The effect on [animate, dimensions] run for a render with dims: the     *)
(* callback list and animationFrameRef.current it leaves.                  *)
startLoop(frames, ref, dims) ==
    IF surfaceHasSize(dims)
    THEN [frames |-> requestAnimationFrame(frames, dims).frames,
          ref |-> requestAnimationFrame(frames, dims).id]
    ELSE [frames |-> frames, ref |-> ref]

----------------------------------------------------------------------------
(* The data hook useSentimentData.  Times are counted from the mount: the  *)
(* data file's timestamps lie before it, new Date() after it.              *)

NoDate == 0

(* What the server answers: the file with its timestamp, no file, or a     *)
(* failure.                                                                *)
Responses ==
    { [status |-> 200, timestamp |-> -2], [status |-> 200, timestamp |-> -1],
      [status |-> 404, timestamp |-> NoDate], [status |-> 500, timestamp |-> NoDate] }

(* fetchData up to its await: setError(null) and the request, by the       *)
(* fetchData of the render in which lastUpdated was seen.                  *)
fetchData(fetches, count, seen) == fetches \cup {[id |-> count + 1, seen |-> seen]}

(* fetchData from its await on, for the call that closes over seen: the    *)
(* state it sets, and whether it called setLastUpdated.                    *)
fetchDataSettles(seen, response, now, held, updated) ==
    IF response.status = 404
    THEN [data |-> now, lastUpdated |-> now, error |-> FALSE, set |-> TRUE]
    ELSE IF response.status # 200
    THEN [data |-> held, lastUpdated |-> updated, error |-> TRUE, set |-> FALSE]
    ELSE IF seen = NoDate \/ response.timestamp # seen
    THEN [data |-> response.timestamp, lastUpdated |-> response.timestamp,
          error |-> FALSE, set |-> TRUE]
    ELSE [data |-> held, lastUpdated |-> updated, error |-> FALSE, set |-> FALSE]

(* The polling effect: fetchData() and setInterval(fetchData, ...), with   *)
(* the fetchData of the render in which lastUpdated is seen; the cleanup   *)
(* of the run before it has cleared the interval armed then.               *)
pollingEffect(fetches, count, seen) ==
    [fetches |-> fetchData(fetches, count, seen), interval |-> [seen |-> seen]]

----------------------------------------------------------------------------
(* The state machine.                                                      *)

NoGesture == [phase |-> "up", pressHit |-> NoBubble, moved |-> FALSE]

Init ==
    /\ topics = <<>>
    /\ dimensions = [width |-> initialWidth, height |-> initialHeight]
    /\ bubblesRef = <<>>
    /\ isMouseDown = FALSE
    /\ draggedBubble = NoBubble
    /\ mousePosition = [x |-> 0, y |-> 0]
    /\ pointer = NoGesture
    /\ clickCalls = <<>>
    /\ lastEvent = "mount"
    /\ counts = [snapshots |-> 0, resizes |-> 0, ticks |-> 0, gestures |-> 0]
    /\ mounted = TRUE
    /\ frameCallbacks = startLoop({}, 0, dimensions).frames
    /\ animationFrameRef = startLoop({}, 0, dimensions).ref
    /\ data = NoDate
    /\ loading = TRUE
    /\ error = FALSE
    /\ lastUpdated = NoDate
    /\ pendingFetches = pollingEffect({}, 0, NoDate).fetches
    /\ interval = pollingEffect({}, 0, NoDate).interval
    /\ fetchCount = 1
    /\ clock = 1

Budget == counts.snapshots + counts.resizes + counts.ticks + counts.gestures < MaxEvents

(* A click event follows its mouseup at once; nothing runs in between. *)
Idle == pointer.phase # "click"

(* The gesture record after a handler other than a pointer handler ran:    *)
(* a finished gesture is forgotten.                                        *)
Disturbed == IF pointer.phase = "down" THEN pointer ELSE NoGesture

(* The host renders the component with a new topics prop: the effect on    *)
(* initializeBubbles runs.                                                 *)
SetTopics(snapshot, rnd) ==
    /\ mounted
    /\ Idle
    /\ Budget
    /\ topics' = snapshot
    /\ bubblesRef' = initializeBubbles(snapshot, dimensions, bubblesRef, rnd)
    /\ pointer' = Disturbed
    /\ lastEvent' = "snapshot"
    /\ counts' = [counts EXCEPT !.snapshots = @ + 1]
    /\ clickCalls' = <<>>
    /\ UNCHANGED <<dimensions, isMouseDown, draggedBubble, mousePosition>>
    /\ UNCHANGED loopVars
    /\ UNCHANGED hookVars

(* The ResizeObserver calls updateDimensions; setDimensions changes        *)
(* initializeBubbles, whose effect runs again with the same topics, and    *)
(* animate, whose effect stops the loop and starts it again.               *)
Resize(size, rnd) ==
    /\ mounted
    /\ Idle
    /\ Budget
    /\ dimensions' = size
    /\ bubblesRef' = initializeBubbles(topics, size, bubblesRef, rnd)
    /\ pointer' = Disturbed
    /\ lastEvent' = "resize"
    /\ counts' = [counts EXCEPT !.resizes = @ + 1]
    /\ clickCalls' = <<>>
    /\ LET loop == startLoop(stopLoop(frameCallbacks, animationFrameRef),
                              animationFrameRef, size)
       IN  /\ frameCallbacks' = loop.frames
           /\ animationFrameRef' = loop.ref
    /\ UNCHANGED <<topics, isMouseDown, draggedBubble, mousePosition, mounted>>
    /\ UNCHANGED hookVars

(* The browser runs the pending callback frame: animate calls             *)
(* updatePhysics (render draws only) and requests the next frame.          *)
Tick(time, rnd) ==
    /\ Idle
    /\ Budget
    /\ \E frame \in frameCallbacks :
          LET next == requestAnimationFrame(frameCallbacks \ {frame}, frame.dims)
          IN  /\ bubblesRef' = updatePhysics(bubblesRef, frame.dims, mousePosition,
                                             time, rnd)
              /\ frameCallbacks' = next.frames
              /\ animationFrameRef' = next.id
    /\ pointer' = Disturbed
    /\ lastEvent' = "tick"
    /\ counts' = [counts EXCEPT !.ticks = @ + 1]
    /\ clickCalls' = <<>>
    /\ UNCHANGED <<topics, dimensions, isMouseDown, draggedBubble, mousePosition,
                   mounted>>
    /\ UNCHANGED hookVars

(* The host removes the component: the effects' cleanups run. *)
Unmount ==
    /\ mounted
    /\ Idle
    /\ mounted' = FALSE
    /\ frameCallbacks' = stopLoop(frameCallbacks, animationFrameRef)
    /\ lastEvent' = "unmount"
    /\ UNCHANGED <<topics, dimensions, bubblesRef, isMouseDown, draggedBubble,
                   mousePosition, pointer, clickCalls, counts, animationFrameRef>>
    /\ UNCHANGED hookVars

(* Pointer events reach the canvas only at points inside it. *)
InCanvas(p) == p.x <= dimensions.width /\ p.y <= dimensions.height

(* mousedown on the canvas at p. *)
MouseDown(p) ==
    /\ mounted
    /\ pointer.phase = "up"
    /\ InCanvas(p)
    /\ Budget
    /\ mousePosition' = p
    /\ bubblesRef' = handleMouseDown(bubblesRef, p)
    /\ LET i == FirstHit(bubblesRef, p)
       IN  /\ isMouseDown' = IF i = 0 THEN isMouseDown ELSE TRUE
           /\ draggedBubble' = IF i = 0 THEN draggedBubble ELSE bubblesRef[i].id
           /\ pointer' = [phase |-> "down",
                          pressHit |-> IF i = 0 THEN NoBubble ELSE bubblesRef[i].id,
                          moved |-> FALSE]
    /\ clickCalls' = <<>>
    /\ lastEvent' = "mousedown"
    /\ counts' = [counts EXCEPT !.gestures = @ + 1]
    /\ UNCHANGED <<topics, dimensions>>
    /\ UNCHANGED loopVars
    /\ UNCHANGED hookVars

(* mousemove on the canvas to p while the button is down.  A move with the *)
(* button up writes only mousePosition, which the next mousedown sets      *)
(* again before anything reads it, and the cursor style; neither is        *)
(* modelled.                                                               *)
MouseMove(p) ==
    /\ mounted
    /\ pointer.phase = "down"
    /\ InCanvas(p)
    /\ p # mousePosition
    /\ mousePosition' = p
    /\ pointer' = [pointer EXCEPT !.moved = TRUE]
    /\ UNCHANGED <<topics, dimensions, bubblesRef, isMouseDown, draggedBubble,
                   clickCalls, lastEvent, counts>>
    /\ UNCHANGED loopVars
    /\ UNCHANGED hookVars

(* mouseup over the canvas: the canvas's onMouseUp, then the document's    *)
(* listener.  That listener is the handleMouseUp of the render after       *)
(* setDraggedBubble(null) if React has rendered and run the effect on      *)
(* [handleMouseUp] before the event reaches the document, and the one      *)
(* registered before, which still sees the dragged bubble, if it has not   *)
(* (effects deferred under a legacy root, or an event dispatched from      *)
(* script); which of the two depends on the build.  The browser then sends *)
(* click to the canvas.                                                    *)
MouseUp ==
    /\ mounted
    /\ pointer.phase = "down"
    /\ \E listener \in {draggedBubble, NoBubble} :
          LET canvas == handleMouseUp(bubblesRef, draggedBubble)
          IN  bubblesRef' = handleMouseUp(canvas, listener)
    /\ draggedBubble' = NoBubble
    /\ isMouseDown' = FALSE
    /\ pointer' = [pointer EXCEPT !.phase = "click"]
    /\ lastEvent' = "mouseup"
    /\ UNCHANGED <<topics, dimensions, mousePosition, clickCalls, counts>>
    /\ UNCHANGED loopVars
    /\ UNCHANGED hookVars

(* mouseup after the pointer left the canvas: only the document's listener *)
(* runs, and no click is sent to the canvas.                               *)
MouseUpOutside ==
    /\ mounted
    /\ pointer.phase = "down"
    /\ bubblesRef' = handleMouseUp(bubblesRef, draggedBubble)
    /\ draggedBubble' = NoBubble
    /\ isMouseDown' = FALSE
    /\ pointer' = [pointer EXCEPT !.phase = "up", !.moved = TRUE]
    /\ lastEvent' = "mouseup"
    /\ UNCHANGED <<topics, dimensions, mousePosition, clickCalls, counts>>
    /\ UNCHANGED loopVars
    /\ UNCHANGED hookVars

(* click on the canvas, at the point of the mouseup: the pointer has not   *)
(* moved since the last mousemove.                                         *)
Click ==
    /\ mounted
    /\ pointer.phase = "click"
    /\ clickCalls' = handleClick(bubblesRef, isMouseDown, mousePosition)
    /\ pointer' = [pointer EXCEPT !.phase = "up"]
    /\ lastEvent' = "click"
    /\ UNCHANGED <<topics, dimensions, bubblesRef, isMouseDown, draggedBubble,
                   mousePosition, counts>>
    /\ UNCHANGED loopVars
    /\ UNCHANGED hookVars

Next ==
    \/ \E snapshot \in Snapshots, rnd \in RandomStreams : SetTopics(snapshot, rnd)
    \/ \E size \in ContainerSizes, rnd \in RandomStreams : Resize(size, rnd)
    \/ \E time \in FrameTimes, rnd \in RandomStreams : Tick(time, rnd)
    \/ Unmount
    \/ \E p \in PointerPoints : MouseDown(p)
    \/ \E p \in PointerPoints : MouseMove(p)
    \/ MouseUp
    \/ MouseUpOutside
    \/ Click

Spec == Init /\ [][Next]_vars

(* The component mounted with two topics of any two sentiments: what       *)
(* getSentimentColor returns is the targetColor of their new bubbles.      *)
PaintSentiments(s, t, rnd) ==
    /\ counts.snapshots = 0
    /\ SetTopics(<<Topic("A", s, 100), Topic("B", t, 100)>>, rnd)

ColorNext ==
    \E s \in SentimentInputs, t \in SentimentInputs, rnd \in RandomStreams :
        PaintSentiments(s, t, rnd)

ColorSpec == Init /\ [][ColorNext]_vars

(* The component left to its frames: snapshots, resizes between a small    *)
(* container and a display, and frames, with no pointer input.             *)
FrameNext ==
    \/ \E snapshot \in Snapshots, rnd \in RandomStreams : SetTopics(snapshot, rnd)
    \/ \E size \in DisplaySizes, rnd \in RandomStreams : Resize(size, rnd)
    \/ \E time \in FrameTimes, rnd \in RandomStreams : Tick(time, rnd)

FrameSpec == Init /\ [][FrameNext]_vars

(* Pointer positions that include two to the side of the centre of the    *)
(* initial canvas: one 60 px from it, inside a bubble of maxRadius placed  *)
(* there, and one 85 px from it, just outside such a bubble.               *)
PressPoints ==
    PointerPoints \cup { [x |-> 3400, y |-> 3000], [x |-> 4850, y |-> 3000] }

(* mousedown for a second mouse button while the first is held: the       *)
(* browser sends mousedown for every button, at the pointer's position,    *)
(* and handleMouseDown does not look at event.button or at isMouseDown.    *)
(* The mouseup of the button released second finds draggedBubble null and  *)
(* changes no bubble; it is not modelled.                                  *)
SecondButtonDown ==
    /\ mounted
    /\ pointer.phase = "down"
    /\ Budget
    /\ bubblesRef' = handleMouseDown(bubblesRef, mousePosition)
    /\ LET i == FirstHit(bubblesRef, mousePosition)
       IN  /\ isMouseDown' = IF i = 0 THEN isMouseDown ELSE TRUE
           /\ draggedBubble' = IF i = 0 THEN draggedBubble ELSE bubblesRef[i].id
           /\ pointer' = [pointer EXCEPT
                             !.pressHit = IF i = 0 THEN @ ELSE bubblesRef[i].id]
    /\ clickCalls' = <<>>
    /\ lastEvent' = "mousedown"
    /\ counts' = [counts EXCEPT !.gestures = @ + 1]
    /\ UNCHANGED <<topics, dimensions, mousePosition>>
    /\ UNCHANGED loopVars
    /\ UNCHANGED hookVars

(* The component under snapshots, frames and presses, releases and clicks  *)
(* at those points, with one or two mouse buttons.                         *)
PressNext ==
    \/ \E snapshot \in Snapshots, rnd \in RandomStreams : SetTopics(snapshot, rnd)
    \/ \E time \in FrameTimes, rnd \in RandomStreams : Tick(time, rnd)
    \/ \E p \in PressPoints : MouseDown(p)
    \/ SecondButtonDown
    \/ MouseUp
    \/ Click

PressSpec == Init /\ [][PressNext]_vars

(* Math.random() drawing 0.5 every time: new bubbles are placed at the     *)
(* centre of the canvas, where no force moves them.                        *)
MiddleDraws == [i \in 1..6 |-> 500]

(* The first snapshot and one refresh of it. *)
Repaint(snapshot) ==
    /\ counts.snapshots < 2
    /\ SetTopics(snapshot, MiddleDraws)

(* A frame of the running loop, as Tick, not counted: the loop runs frames *)
(* for as long as the component is mounted.                                *)
Frame(time, rnd) ==
    /\ Idle
    /\ \E frame \in frameCallbacks :
          LET next == requestAnimationFrame(frameCallbacks \ {frame}, frame.dims)
          IN  /\ bubblesRef' = updatePhysics(bubblesRef, frame.dims, mousePosition,
                                             time, rnd)
              /\ frameCallbacks' = next.frames
              /\ animationFrameRef' = next.id
    /\ pointer' = Disturbed
    /\ lastEvent' = "tick"
    /\ clickCalls' = <<>>
    /\ UNCHANGED <<topics, dimensions, isMouseDown, draggedBubble, mousePosition,
                   mounted, counts>>
    /\ UNCHANGED hookVars

Frames == \E time \in FrameTimes, rnd \in RandomStreams : Frame(time, rnd)

SettleNext ==
    \/ \E snapshot \in Snapshots : Repaint(snapshot)
    \/ Frames

(* The component with its loop running for as long as it takes. *)
SettleSpec == Init /\ [][SettleNext]_vars

(* The data hook alone: pollingInterval fixed, no refresh, no topic change. *)

(* The interval's timer fires: the fetchData it was armed with runs. *)
IntervalFires ==
    /\ fetchCount < MaxFetches
    /\ pendingFetches' = fetchData(pendingFetches, fetchCount, interval.seen)
    /\ fetchCount' = fetchCount + 1
    /\ error' = FALSE
    /\ clock' = clock + 1
    /\ UNCHANGED <<data, loading, lastUpdated, interval>>
    /\ UNCHANGED canvasVars

(* The response of a pending fetch arrives and its fetchData runs to the   *)
(* end.  A setLastUpdated stores a new Date, so the next render has a new  *)
(* fetchData (deps [lastUpdated]) and the polling effect (deps [fetchData, *)
(* pollingInterval, refreshTrigger]) runs again: cleanup, then the effect. *)
FetchCompletes(response) ==
    /\ fetchCount < MaxFetches
    /\ \E fetch \in pendingFetches :
          LET settled == fetchDataSettles(fetch.seen, response, clock, data, lastUpdated)
              others == pendingFetches \ {fetch}
              effect == pollingEffect(others, fetchCount, settled.lastUpdated)
          IN  /\ data' = settled.data
              /\ lastUpdated' = settled.lastUpdated
              /\ loading' = FALSE
              /\ IF settled.set
                 THEN /\ pendingFetches' = effect.fetches
                      /\ interval' = effect.interval
                      /\ fetchCount' = fetchCount + 1
                      /\ error' = FALSE
                 ELSE /\ pendingFetches' = others
                      /\ error' = settled.error
                      /\ UNCHANGED <<interval, fetchCount>>
    /\ clock' = clock + 1
    /\ UNCHANGED canvasVars

HookNext ==
    \/ IntervalFires
    \/ \E response \in Responses : FetchCompletes(response)

HookSpec == Init /\ [][HookNext]_vars

----------------------------------------------------------------------------
(* Properties of reconciliation.                                           *)

TopicIdsOf(ts) == { ts[i].topicId : i \in 1..Len(ts) }

(* The latest snapshot's record of the topic id. *)
TopicOf(id) == topics[CHOOSE i \in 1..Len(topics) : topics[i].topicId = id]

(* A step in which initializeBubbles ran. *)
SnapshotStep == counts'.snapshots # counts.snapshots

ReconcileStep == SnapshotStep \/ counts'.resizes # counts.resizes

(* C1: a reconciliation leaves x, y, vx and vy of every bubble whose topic *)
(* is in both the previous and the new snapshot as they were, removes the  *)
(* bubbles of the topics that vanished, and gives every new topic a fresh  *)
(* bubble (at rest, not dragged, at its snapshot's values).                *)
C1_ReconcileKeepsMotion ==
    [][ReconcileStep =>
         /\ \A id \in MapKeys(bubblesRef) \cap TopicIdsOf(topics') :
               /\ MapHas(bubblesRef', id)
               /\ MapGet(bubblesRef', id).x = MapGet(bubblesRef, id).x
               /\ MapGet(bubblesRef', id).y = MapGet(bubblesRef, id).y
               /\ MapGet(bubblesRef', id).vx = MapGet(bubblesRef, id).vx
               /\ MapGet(bubblesRef', id).vy = MapGet(bubblesRef, id).vy
         /\ \A id \in MapKeys(bubblesRef) \ TopicIdsOf(topics') :
               ~MapHas(bubblesRef', id)
         /\ \A id \in TopicIdsOf(topics') \ MapKeys(bubblesRef) :
               /\ MapHas(bubblesRef', id)
               /\ MapGet(bubblesRef', id).vx = 0
               /\ MapGet(bubblesRef', id).vy = 0
               /\ ~MapGet(bubblesRef', id).isDragging
               /\ MapGet(bubblesRef', id).radius = MapGet(bubblesRef', id).targetRadius
               /\ MapGet(bubblesRef', id).currentVolume = MapGet(bubblesRef', id).targetVolume
               /\ MapGet(bubblesRef', id).currentSentiment =
                      MapGet(bubblesRef', id).targetSentiment
      ]_vars

(* The snapshot <<B, C>> has just replaced one that listed A before B: A's *)
(* bubble is gone, C's is new and at rest, and B's, which a frame had set  *)
(* in motion, is still moving.                                             *)
C1_Witness ==
    /\ lastEvent = "snapshot"
    /\ MapKeys(bubblesRef) = {"B", "C"}
    /\ MapGet(bubblesRef, "B").index = 1
    /\ MapGet(bubblesRef, "B").vx # 0
    /\ MapGet(bubblesRef, "B").vy # 0
    /\ MapGet(bubblesRef, "C").vx = 0

(* C2: the index of a bubble, once assigned, never changes while the       *)
(* bubble exists, in whatever order later snapshots list the topics.       *)
C2_IndexNeverChanges ==
    [][\A id \in MapKeys(bubblesRef) \cap MapKeys(bubblesRef') :
          MapGet(bubblesRef', id).index = MapGet(bubblesRef, id).index]_vars

(* C3: receiving a snapshot changes no bubble's currentSentiment or        *)
(* currentVolume; only a frame's smoothing moves them.                     *)
C3_SnapshotKeepsSmoothedValues ==
    [][SnapshotStep =>
         \A id \in MapKeys(bubblesRef) \cap MapKeys(bubblesRef') :
            /\ MapGet(bubblesRef', id).currentSentiment =
                   MapGet(bubblesRef, id).currentSentiment
            /\ MapGet(bubblesRef', id).currentVolume =
                   MapGet(bubblesRef, id).currentVolume]_vars

(* C4: the bubbles are one per topic of the latest snapshot: the ids in    *)
(* the Map are the ids of the topics, and none for an empty snapshot.      *)
C4_BubblesMatchTopics ==
    /\ MapKeys(bubblesRef) = TopicIdsOf(topics)
    /\ Len(bubblesRef) = Cardinality(TopicIdsOf(topics))

(* After the snapshot <<B, C>> replaced one with A and B (B still carries  *)
(* the index it got behind A): A's bubble was removed and C's added.       *)
C4_Witness ==
    /\ lastEvent = "snapshot"
    /\ TopicIdsOf(topics) = {"B", "C"}
    /\ MapHas(bubblesRef, "B")
    /\ MapGet(bubblesRef, "B").index = 1

----------------------------------------------------------------------------
(* Properties of the pointer handlers.                                     *)

Contains(b, p) == distance(p, b) <= b.radius

(* The position of the bubble drawn last among those the point lies in. *)
LastHit(bs, p) ==
    CHOOSE i \in 1..Len(bs) :
        /\ Contains(bs[i], p)
        /\ \A k \in 1..Len(bs) : Contains(bs[k], p) => k <= i

(* C5: after a press on a bubble, a pointer move and a release, the click  *)
(* that follows does not call onBubbleClick.                               *)
C5_DragSuppressesClick ==
    (lastEvent = "click" /\ pointer.pressHit # NoBubble /\ pointer.moved)
        => clickCalls = <<>>

C7_TopmostBubbleWins ==
    [][ /\ (pointer.phase = "up" /\ pointer'.phase = "down"
                /\ pointer'.pressHit # NoBubble)
              => pointer'.pressHit = bubblesRef[LastHit(bubblesRef, mousePosition')].id
        /\ (pointer.phase = "click" /\ pointer'.phase = "up"
                /\ lastEvent' = "click" /\ clickCalls' # <<>>)
              => clickCalls'[1].topicId = bubblesRef[LastHit(bubblesRef, mousePosition)].id
      ]_vars

(* C19: for every snapshot, the empty one and one whose volumes are all   *)
(* zero included, the maximum volume that divides the volume ratio is at   *)
(* least one post, at reconciliation and in every frame.                   *)
C19_MaxVolumeAtLeastOne ==
    /\ \A snapshot \in Snapshots : maxTopicVolume(snapshot) >= 100
    /\ maxTopicVolume(topics) >= 100
    /\ maxCurrentVolume(bubblesRef) >= 100
    /\ \A i \in 1..Len(bubblesRef) :
          maxCurrentVolume([bubblesRef EXCEPT ![i].currentVolume = bubblesRef[i].targetVolume]) >= 100

(* A frame has run on the bubbles of a snapshot whose volumes are all zero. *)
C19_Witness ==
    /\ lastEvent = "tick"
    /\ bubblesRef # <<>>
    /\ \A i \in 1..Len(topics) : topics[i].volume = 0
    /\ \A i \in 1..Len(bubblesRef) :
          bubblesRef[i].currentVolume = 0 /\ bubblesRef[i].targetRadius = minRadius

(* A step in which a pending fetch received its response. *)
FetchCompleted == \E fetch \in pendingFetches : fetch \notin pendingFetches'

(* C20: the hook fetches once at mount and once per pollingInterval;       *)
(* completing a fetch, whatever it returns, never by itself starts         *)
(* another fetch.                                                          *)
C20_CompletionStartsNoFetch ==
    [][FetchCompleted =>
         /\ fetchCount' = fetchCount
         /\ pendingFetches' \subseteq pendingFetches]_vars

(* A step in which a mouseup was handled. *)
ReleaseStep == pointer.phase = "down" /\ pointer'.phase # "down"

(* C17: a release, over the canvas or elsewhere, clears the dragging flag  *)
(* of the dragged bubble and multiplies its velocity by dragStrength       *)
(* exactly once; after it no bubble is dragging.                           *)
C17_ReleaseKeepsMomentumOnce ==
    [][ReleaseStep =>
         /\ \A i \in 1..Len(bubblesRef') : ~bubblesRef'[i].isDragging
         /\ \A id \in MapKeys(bubblesRef) :
               /\ MapGet(bubblesRef', id).vx =
                      IF id = draggedBubble
                      THEN Div(MapGet(bubblesRef, id).vx * dragStrength, 1000)
                      ELSE MapGet(bubblesRef, id).vx
               /\ MapGet(bubblesRef', id).vy =
                      IF id = draggedBubble
                      THEN Div(MapGet(bubblesRef, id).vy * dragStrength, 1000)
                      ELSE MapGet(bubblesRef, id).vy]_vars

----------------------------------------------------------------------------
(* Properties of the frames.                                               *)

(* The bubble's centre is inside the walls, give or take the 5 px. *)
InsideWalls(b) ==
    /\ b.x >= b.radius + boundaryPadding - 50
    /\ b.x <= dimensions.width - b.radius - boundaryPadding + 50
    /\ b.y >= b.radius + boundaryPadding - 50
    /\ b.y <= dimensions.height - b.radius - boundaryPadding + 50

(* C8: after every frame the centre of every bubble is within              *)
(* [radius + padding - 5, dimension - radius - padding + 5] on both axes.  *)
C8_TickKeepsBubblesInside ==
    lastEvent = "tick" => \A i \in 1..Len(bubblesRef) : InsideWalls(bubblesRef[i])

(* C9: radius and targetRadius of every bubble are between minRadius and   *)
(* maxRadius in every reachable state.                                     *)
C9_RadiusWithinLimits ==
    \A i \in 1..Len(bubblesRef) :
        /\ minRadius <= bubblesRef[i].radius /\ bubblesRef[i].radius <= maxRadius
        /\ minRadius <= bubblesRef[i].targetRadius
        /\ bubblesRef[i].targetRadius <= maxRadius

(* A frame is smoothing a radius towards a new target while one bubble is  *)
(* at the largest and another at the smallest target.                      *)
C9_Witness ==
    /\ lastEvent = "tick"
    /\ \E i \in 1..Len(bubblesRef) :
          /\ bubblesRef[i].radius # bubblesRef[i].targetRadius
          /\ bubblesRef[i].radius > minRadius
          /\ bubblesRef[i].radius < maxRadius
    /\ \E i \in 1..Len(bubblesRef) : bubblesRef[i].targetRadius = maxRadius
    /\ \E i \in 1..Len(bubblesRef) : bubblesRef[i].targetRadius = minRadius

LargerVolumeLargerTarget ==
    \A i, j \in 1..Len(bubblesRef) :
        bubblesRef[i].topic.volume > bubblesRef[j].topic.volume
            => bubblesRef[i].targetRadius >= bubblesRef[j].targetRadius

(* C10: of two bubbles the one whose topic has the larger snapshot volume  *)
(* has a targetRadius at least as large, right after a reconciliation and  *)
(* after every later frame.                                                *)
C10_VolumeOrdersTargetRadius ==
    lastEvent \in {"snapshot", "resize", "tick"} => LargerVolumeLargerTarget

VolumesSettled ==
    \A i \in 1..Len(bubblesRef) :
        bubblesRef[i].currentVolume = bubblesRef[i].targetVolume

(* C10, amended: the order holds right after a reconciliation, and after a *)
(* later frame whenever every bubble's smoothed currentVolume has reached  *)
(* its snapshot volume.                                                    *)
C10_VolumeOrdersSettledTargetRadius ==
    (lastEvent \in {"snapshot", "resize"} \/ (lastEvent = "tick" /\ VolumesSettled))
        => LargerVolumeLargerTarget

(* A frame has run on settled bubbles of different volumes. *)
C10_Witness ==
    /\ lastEvent = "tick"
    /\ VolumesSettled
    /\ \E i, j \in 1..Len(bubblesRef) :
          /\ bubblesRef[i].topic.volume > bubblesRef[j].topic.volume
          /\ bubblesRef[i].targetRadius > bubblesRef[j].targetRadius

----------------------------------------------------------------------------
(* Properties of the radius mapping.                                       *)

(* The largest volume of the snapshot, in posts (0 for the empty one). *)
LargestVolume == SeqMax([i \in 1..Len(topics) |-> topics[i].volume \div 100], 0)

(* r is minRadius + (maxRadius - minRadius) * sqrt(volume / maxVolume), to *)
(* the 0.1 px the lengths are kept to; the volumes are in posts.           *)
RadiusOfShare(r, volume, maxVolume) ==
    LET n == r - minRadius
        span == maxRadius - minRadius
    IN  /\ n >= 0
        /\ n * n * maxVolume <= span * span * volume
        /\ span * span * volume < (n + 2) * (n + 2) * maxVolume

(* The targetRadius of every bubble follows the formula with the divisor   *)
(* given, the largest topic has maxRadius and one with a quarter of its    *)
(* volume has the midpoint.                                                *)
TargetRadiusBy(divisor) ==
    \A i \in 1..Len(bubblesRef) :
       LET b == bubblesRef[i]
           volume == b.topic.volume \div 100
       IN  /\ RadiusOfShare(b.targetRadius, volume, divisor)
           /\ volume = divisor => b.targetRadius = maxRadius
           /\ 4 * volume = divisor =>
                  2 * b.targetRadius = minRadius + maxRadius

(* C11: right after a reconciliation every bubble's targetRadius is        *)
(* minRadius + (maxRadius - minRadius) * sqrt(volume / maxVolume) with     *)
(* maxVolume the largest volume in the snapshot: the largest topic gets    *)
(* maxRadius, a topic with a quarter of that volume the midpoint.          *)
C11_TargetRadiusOfLargestVolume ==
    lastEvent \in {"snapshot", "resize"} => TargetRadiusBy(LargestVolume)

(* C11, amended: the divisor is the largest volume in the snapshot or 1,   *)
(* whichever is larger, so the largest topic gets maxRadius only when its  *)
(* volume is at least 1; in a snapshot of zero volumes every topic gets    *)
(* minRadius.                                                              *)
C11_TargetRadiusOfLargestVolumeOrOne ==
    lastEvent \in {"snapshot", "resize"} =>
        /\ TargetRadiusBy(Max(LargestVolume, 1))
        /\ LargestVolume = 0 =>
               \A i \in 1..Len(bubblesRef) : bubblesRef[i].targetRadius = minRadius

(* A snapshot with volumes 200 and 50 has just been reconciled: 80 and     *)
(* 47.5.                                                                   *)
C11_Witness ==
    /\ lastEvent = "snapshot"
    /\ \E i, j \in 1..Len(bubblesRef) :
          /\ bubblesRef[i].topic.volume = 20000
          /\ bubblesRef[i].targetRadius = 800
          /\ bubblesRef[j].topic.volume = 5000
          /\ bubblesRef[j].targetRadius = 475

----------------------------------------------------------------------------
(* Properties of the colour mapping, over ColorSpec.                       *)

BandOfSentiment(sentiment) ==
    IF sentiment > 500 THEN "very positive"
    ELSE IF sentiment > 100 THEN "positive"
    ELSE IF sentiment >= -100 THEN "neutral"
    ELSE IF sentiment >= -500 THEN "negative"
    ELSE "very negative"

BandOfColor(color) ==
    IF color = DarkGreen THEN "very positive"
    ELSE IF color = Green THEN "positive"
    ELSE IF color = NeutralGray THEN "neutral"
    ELSE IF color = Red THEN "negative"
    ELSE IF color = DarkRed THEN "very negative"
    ELSE "none"

MirrorBand(band) ==
    IF band = "very positive" THEN "very negative"
    ELSE IF band = "positive" THEN "negative"
    ELSE IF band = "negative" THEN "positive"
    ELSE IF band = "very negative" THEN "very positive"
    ELSE band

(* C12: the colour of a sentiment in [-1, 1] is that of its band (very     *)
(* positive above 0.5, positive in (0.1, 0.5], neutral in [-0.1, 0.1],     *)
(* negative in [-0.5, -0.1), very negative below -0.5), the five bands     *)
(* have five colours, equal sentiments get equal colours, and the band of  *)
(* -s is the mirror image of the band of s.                                *)
C12_ColorBands ==
    /\ Cardinality({DarkGreen, Green, NeutralGray, Red, DarkRed}) = 5
    /\ \A i \in 1..Len(bubblesRef) :
          BandOfColor(bubblesRef[i].targetColor) =
              BandOfSentiment(bubblesRef[i].targetSentiment)
    /\ \A i, j \in 1..Len(bubblesRef) :
          /\ bubblesRef[i].targetSentiment = bubblesRef[j].targetSentiment
                => bubblesRef[i].targetColor = bubblesRef[j].targetColor
          /\ bubblesRef[i].targetSentiment = -bubblesRef[j].targetSentiment
                => BandOfColor(bubblesRef[i].targetColor) =
                      MirrorBand(BandOfColor(bubblesRef[j].targetColor))

(* Sentiments 0.5 and -0.5, on the thresholds, painted green and red. *)
C12_Witness ==
    /\ Len(bubblesRef) = 2
    /\ bubblesRef[1].targetSentiment = 500
    /\ bubblesRef[1].targetColor = Green
    /\ bubblesRef[2].targetSentiment = -500
    /\ bubblesRef[2].targetColor = Red

(* C13: in a band other than the neutral one the colour is interpolated    *)
(* between the band's two endpoint colours by the sentiment's position in  *)
(* the band, so two different sentiments of one such band get different    *)
(* colours.                                                                *)
C13_ColorInterpolatedInBand ==
    \A i, j \in 1..Len(bubblesRef) :
        ( /\ BandOfSentiment(bubblesRef[i].targetSentiment) # "neutral"
          /\ BandOfSentiment(bubblesRef[i].targetSentiment) =
                BandOfSentiment(bubblesRef[j].targetSentiment)
          /\ bubblesRef[i].targetSentiment # bubblesRef[j].targetSentiment )
            => bubblesRef[i].targetColor # bubblesRef[j].targetColor

(* C13, amended: every band, neutral or not, has one flat colour: two      *)
(* sentiments of one band get the same colour.                             *)
C13_ColorFlatInBand ==
    \A i, j \in 1..Len(bubblesRef) :
        BandOfSentiment(bubblesRef[i].targetSentiment) =
            BandOfSentiment(bubblesRef[j].targetSentiment)
          => bubblesRef[i].targetColor = bubblesRef[j].targetColor

(* The two ends of the positive band, 0.101 and 0.5, painted alike. *)
C13_Witness ==
    /\ Len(bubblesRef) = 2
    /\ bubblesRef[1].targetSentiment = 101
    /\ bubblesRef[2].targetSentiment = 500
    /\ bubblesRef[1].targetColor = bubblesRef[2].targetColor

----------------------------------------------------------------------------
(* Properties of the animation loop.                                       *)

(* C14: at most one animation-frame callback is pending; it is the one     *)
(* animationFrameRef names, requested by the loop of the current render;   *)
(* once the component is torn down none is pending, so no frame of a       *)
(* stopped loop can run.                                                   *)
C14_OneLoopOnly ==
    /\ Cardinality(frameCallbacks) <= 1
    /\ \A f \in frameCallbacks : f.id = animationFrameRef /\ f.dims = dimensions
    /\ ~mounted => frameCallbacks = {}

(* Torn down after the loop was restarted by a resize and had run a frame. *)
C14_Witness ==
    /\ ~mounted
    /\ lastEvent = "unmount"
    /\ counts.resizes >= 1
    /\ counts.ticks >= 1
    /\ frameCallbacks = {}

(* C18: while the surface has zero width or height no frame is pending,    *)
(* so no tick runs; while the mounted component's surface has both         *)
(* dimensions positive a frame is pending, so ticking goes on or resumes;  *)
(* and no pending frame would compute with a zero dimension.               *)
C18_NoTickOnEmptySurface ==
    /\ (dimensions.width = 0 \/ dimensions.height = 0) => frameCallbacks = {}
    /\ (mounted /\ dimensions.width > 0 /\ dimensions.height > 0)
          => frameCallbacks # {}
    /\ \A f \in frameCallbacks : f.dims.width > 0 /\ f.dims.height > 0
    /\ lastEvent = "tick" => (dimensions.width > 0 /\ dimensions.height > 0)

(* The surface went to zero width after frames had run, and the loop is    *)
(* stopped.                                                                *)
C18_Witness ==
    /\ mounted
    /\ dimensions.width = 0
    /\ lastEvent = "resize"
    /\ counts.ticks >= 1
    /\ bubblesRef # <<>>
    /\ frameCallbacks = {}

----------------------------------------------------------------------------
(* Properties of the smoothing.                                            *)

(* A step in which a frame ran. *)
TickStep == counts'.ticks # counts.ticks

(* The signed distance of the bubble id from its target sentiment, before  *)
(* and after the step.                                                     *)
SentimentGap(id) ==
    MapGet(bubblesRef, id).targetSentiment - MapGet(bubblesRef, id).currentSentiment

SentimentGapAfter(id) ==
    MapGet(bubblesRef', id).targetSentiment - MapGet(bubblesRef', id).currentSentiment

NoOvershoot(id) ==
    /\ SentimentGap(id) >= 0 => SentimentGapAfter(id) >= 0
    /\ SentimentGap(id) <= 0 => SentimentGapAfter(id) <= 0

----------------------------------------------------------------------------
(* Properties of the press.                                                *)

(* A step in which a mousedown was handled. *)
PressStep == pointer.phase = "up" /\ pointer'.phase = "down"

----------------------------------------------------------------------------
(* Properties of the drag.                                                 *)

(* The point the dragged bubble b is held at: the last pointer position    *)
(* less the stored offset.                                                 *)
HeldPoint(b) == [x |-> mousePosition.x - b.dragOffsetX,
                 y |-> mousePosition.y - b.dragOffsetY]

(* The point is inside the padded boundary of a bubble of radius r. *)
InsidePadding(p, r) ==
    /\ p.x >= r + boundaryPadding
    /\ p.x <= dimensions.width - r - boundaryPadding
    /\ p.y >= r + boundaryPadding
    /\ p.y <= dimensions.height - r - boundaryPadding

(* C22: while a bubble is dragging the pointer alone controls it: at the   *)
(* end of every frame in which the held point lies inside the padded       *)
(* boundary the bubble's centre is that point, wherever the bubble is in   *)
(* the iteration order.                                                    *)
C22_DraggedBubbleFollowsPointer ==
    [][TickStep =>
         \A id \in MapKeys(bubblesRef) :
            ( /\ MapGet(bubblesRef, id).isDragging
              /\ InsidePadding(HeldPoint(MapGet(bubblesRef, id)),
                               MapGet(bubblesRef, id).radius) )
              => /\ MapGet(bubblesRef', id).x = HeldPoint(MapGet(bubblesRef, id)).x
                 /\ MapGet(bubblesRef', id).y = HeldPoint(MapGet(bubblesRef, id)).y]_vars

----------------------------------------------------------------------------
(* Properties of the speed limit, over FrameSpec.                          *)

SpeedWithinLimit(b) == b.vx * b.vx + b.vy * b.vy <= maxVelocity * maxVelocity

(* C23: at the end of every frame the speed of every free bubble is at     *)
(* most maxVelocity, bubbles outside the padded boundary included.         *)
C23_SpeedWithinLimitAfterTick ==
    lastEvent = "tick" =>
        \A i \in 1..Len(bubblesRef) :
            ~bubblesRef[i].isDragging => SpeedWithinLimit(bubblesRef[i])

(* The speed is at most maxVelocity to the resolution of the velocities:   *)
(* the limited velocity is a quotient by the speed, which is rounded.      *)
SpeedWithinLimitRounded(b) ==
    b.vx * b.vx + b.vy * b.vy <= (maxVelocity + 1) * (maxVelocity + 1)

(* The bubbles as a frame finds them when it comes to the bubble at        *)
(* position i: those before it updated.                                    *)
RECURSIVE UpdatedBefore(_, _, _, _, _, _)
UpdatedBefore(bs, i, dims, mouse, time, rnd) ==
    IF i <= 1 THEN bs
    ELSE The({ UpdateBubble(before, i - 1, dims, mouse, time, rnd) :
               before \in {UpdatedBefore(bs, i - 1, dims, mouse, time, rnd)} })

(* C23, amended: the velocity with which a frame advances the position of  *)
(* a free bubble has a speed of at most maxVelocity, whatever velocity the *)
(* bubble entered the frame with; the boundary nudge is added to the       *)
(* velocity after that, so the velocity a bubble outside the padded        *)
(* boundary leaves the frame with can be faster.                           *)
C23_AdvanceSpeedWithinLimit ==
    \A time \in FrameTimes, rnd \in RandomStreams, i \in 1..Len(bubblesRef) :
        ~bubblesRef[i].isDragging =>
            LET before == UpdatedBefore(bubblesRef, i, dimensions, mousePosition, time, rnd)
                moved == FreeStep(before, i, dimensions, time, <<rnd[2 * i - 1], rnd[2 * i]>>)
            IN  SpeedWithinLimitRounded(moved[i])

(* A frame has left a free bubble that was far outside the padded boundary *)
(* faster than maxVelocity: the next frame has to limit it.                *)
C23_Witness ==
    /\ lastEvent = "tick"
    /\ \E i \in 1..Len(bubblesRef) :
          /\ ~bubblesRef[i].isDragging
          /\ ~SpeedWithinLimit(bubblesRef[i])
          /\ ~InsidePadding(bubblesRef[i], bubblesRef[i].radius)

----------------------------------------------------------------------------
(* Properties of the hit test and the drawing.                             *)

(* The point lies in the disc the bubble is drawn as, when the component   *)
(* is rendered with the given selectedTopicId.                             *)
InDrawnDisc(b, p, selectedTopicId) ==
    distance(p, b) * 1000 <= renderedRadius(b, selectedTopicId)

(* C24: a press hits a bubble exactly when its point is within the radius  *)
(* some bubble is drawn with, whichever bubble is the selected one, drawn  *)
(* at 1.1 times its radius.                                                *)
C24_HitIffInsideDrawnDisc ==
    [][PressStep =>
         \A selectedTopicId \in SelectedTopicIds :
             (pointer'.pressHit # NoBubble) <=>
                 \E i \in 1..Len(bubblesRef) :
                     InDrawnDisc(bubblesRef[i], mousePosition', selectedTopicId)]_vars

(* C25: the label of a bubble is drawn dark exactly when the bubble's      *)
(* currentSentiment is one that getSentimentColor maps to the neutral      *)
(* colour, the edges -0.1 and 0.1 of that band included, and light         *)
(* otherwise.                                                              *)
C25_DarkTextIffNeutralBand ==
    \A i \in 1..Len(bubblesRef) :
        /\ textColor(bubblesRef[i]) \in {DarkText, LightText}
        /\ (textColor(bubblesRef[i]) = DarkText) <=>
               (getSentimentColor(bubblesRef[i].currentSentiment) = NeutralGray)

----------------------------------------------------------------------------
(* Properties of a new bubble.                                             *)

(* The centre of b is inside the safe margins of a canvas of size dims. *)
InsideMargins(b, dims) ==
    /\ b.x >= b.radius + boundaryPadding
    /\ b.x <= dims.width - b.radius - boundaryPadding
    /\ b.y >= b.radius + boundaryPadding
    /\ b.y <= dims.height - b.radius - boundaryPadding

(* The safe margins of b leave a place for its centre on both axes. *)
MarginsLeaveRoom(b, dims) ==
    /\ dims.width >= 2 * (b.radius + boundaryPadding)
    /\ dims.height >= 2 * (b.radius + boundaryPadding)

NewAtRest(b) ==
    /\ b.vx = 0
    /\ b.vy = 0
    /\ ~b.isDragging
    /\ b.radius = b.targetRadius

----------------------------------------------------------------------------
(* Properties of the drag state.                                           *)

Dragging == { i \in 1..Len(bubblesRef) : bubblesRef[i].isDragging }

(* C27: in every reachable state at most one bubble has isDragging set,    *)
(* and a bubble that has it set is the one draggedBubble names, the one a  *)
(* release clears.                                                         *)
C27_OneDraggedBubble ==
    /\ Cardinality(Dragging) <= 1
    /\ \A i \in Dragging : bubblesRef[i].id = draggedBubble

(* C28: a reconciliation, by a snapshot or a resize, that runs while a     *)
(* bubble is dragged leaves that bubble's isDragging and its stored        *)
(* dragOffset as they were, so that the frames after it hold the bubble at *)
(* the same place under the pointer.                                       *)
C28_ReconcileKeepsDragState ==
    [][ReconcileStep =>
         \A id \in MapKeys(bubblesRef) \cap MapKeys(bubblesRef') :
             MapGet(bubblesRef, id).isDragging =>
                 /\ MapGet(bubblesRef', id).isDragging
                 /\ MapGet(bubblesRef', id).dragOffsetX = MapGet(bubblesRef, id).dragOffsetX
                 /\ MapGet(bubblesRef', id).dragOffsetY = MapGet(bubblesRef, id).dragOffsetY
                 /\ HeldPoint(MapGet(bubblesRef', id)) = HeldPoint(MapGet(bubblesRef, id))]_vars

----------------------------------------------------------------------------
(* Properties of the draw order.                                           *)

(* The position of the bubble of the topic in the draw order. *)
DrawPosition(m, id) == CHOOSE i \in 1..Len(m) : m[i].id = id

(* C29: a reconciliation keeps the bubbles that survive it in the draw     *)
(* order they had; a bubble that a press raised is still drawn last, on    *)
(* top, after a snapshot with the same topics.                             *)
C29_ReconcileKeepsDrawOrder ==
    [][ReconcileStep =>
         \A a, b \in MapKeys(bubblesRef) \cap MapKeys(bubblesRef') :
             DrawPosition(bubblesRef, a) < DrawPosition(bubblesRef, b)
                 => DrawPosition(bubblesRef', a) < DrawPosition(bubblesRef', b)]_vars

----------------------------------------------------------------------------
(* Properties of the colour transition, over SettleSpec.                   *)

ColorsSettled ==
    \A i \in 1..Len(bubblesRef) : bubblesRef[i].color = bubblesRef[i].targetColor

(* Every frame leaves every bubble as it is. *)
FramesChangeNothing ==
    \A time \in FrameTimes, rnd \in RandomStreams :
        updatePhysics(bubblesRef, dimensions, mousePosition, time, rnd) = bubblesRef

(* C30: with targetColor fixed, the frames bring a bubble's colour to its  *)
(* targetColor; so the colours never come to a halt, every later frame     *)
(* leaving all bubbles as they are, while a colour is not yet its target.  *)
C30_ColorReachesTarget == ColorsSettled \/ ~FramesChangeNothing

====
